---------------------------- MODULE Spec2Model ----------------------------
(***************************************************************************)
(* Model of akoserwal/fastapi-obs.                                         *)
(*                                                                         *)
(*   src/app/main.py   the instrumented FastAPI service: request counter,  *)
(*                     duration histogram, custom tracing spans            *)
(*   src/test_api.py   the traffic generator                               *)
(*                                                                         *)
(* Times are integer milliseconds.  Random draws are existential choices   *)
(* over small sets that contain the end points of the code's ranges.       *)
(***************************************************************************)
EXTENDS Integers, Sequences, FiniteSets, TLC

VARIABLES
    \* ---- service (src/app/main.py) ----
    pc,               \* per request slot: position of its handler coroutine
    req,              \* per request slot: the inbound request
    locals,           \* per request slot: the handler's local variables
    spans,            \* per request slot: the spans its handler started
    response,         \* per request slot: the HTTP response sent
    loop,             \* request whose coroutine holds the event loop, 0 = free
    now,              \* the service's wall clock, time.time()
    REQUEST_COUNT,    \* Counter app_requests_total, by (method, endpoint)
    REQUEST_DURATION, \* Histogram app_request_duration_seconds
    \* ---- traffic generator (src/test_api.py) ----
    g_pc,                 \* position of generate_traffic
    duration_seconds,     \* its arguments
    requests_per_second,
    start_time,
    clock,                \* the generator's wall clock, time.time()
    total_requests,
    successful_requests,
    choice,               \* the (endpoint, method) selected for this iteration
    result,               \* the dict test_endpoint returned
    progress,             \* the progress lines printed so far (last one kept)
    summary               \* the final statistics blocks printed

svars == <<pc, req, locals, spans, response, loop, now,
           REQUEST_COUNT, REQUEST_DURATION>>
gvars == <<g_pc, duration_seconds, requests_per_second, start_time, clock,
           total_requests, successful_requests, choice, result, progress,
           summary>>
vars == <<svars, gvars>>

-----------------------------------------------------------------------------
(* Bounds of the model *)

NumReqs == 2           \* request slots, each carries one inbound request

Reqs == 1 .. NumReqs

-----------------------------------------------------------------------------
(* Program constants *)

NotFoundId == 404                  \* main.py:97
StatusNotFound == 404              \* main.py:100
StatusInternalError == 500         \* main.py:159
StatusOk == 200                    \* default status of a returned dict
ErrorThresholdPct == 30            \* main.py:158, random.random() < 0.3

\* user_id path parameters tried (int, any sign), the 404 sentinel included
UserIds == {-7, 0, 123, 404}
\* random.uniform(0.1, 0.5), ms: both ends of the range
ProcessingTimes == {100, 500}
\* random.randint(1000, 9999): both ends
NewUserIds == {1000, 9999}
\* random.uniform(0.05, 0.15), ms
ValidationTimes == {50, 150}
\* random.uniform(0.15, 0.65), ms
DbProcessingTimes == {150, 650}
\* random.random() in hundredths: both sides of the 0.3 threshold
RandomDraws == {0, 29, 30, 99}

-----------------------------------------------------------------------------
(* f-string formatting of an int *)

Digit(d) ==
    CASE d = 0 -> "0" [] d = 1 -> "1" [] d = 2 -> "2" [] d = 3 -> "3"
      [] d = 4 -> "4" [] d = 5 -> "5" [] d = 6 -> "6" [] d = 7 -> "7"
      [] d = 8 -> "8" [] d = 9 -> "9"

RECURSIVE NatToStr(_)
NatToStr(n) ==
    IF n < 10 THEN Digit(n) ELSE NatToStr(n \div 10) \o Digit(n % 10)

IntToStr(i) == IF i < 0 THEN "-" \o NatToStr(-i) ELSE NatToStr(i)

\* f"user_{user_id}"
Username(user_id) == "user_" \o IntToStr(user_id)

\* f"user_{user_id}@example.com"
Email(user_id) == "user_" \o IntToStr(user_id) \o "@example.com"

-----------------------------------------------------------------------------
(* Metrics: prometheus Counter with labels, Histogram *)

\* The inbound requests the service routes to a handler of main.py
Inbound ==
    {[handler |-> h] : h \in {"root", "health_check", "create_user",
                              "simulate_error", "custom_metrics"}}
    \cup {[handler |-> "get_user", user_id |-> i] : i \in UserIds}

\* The label pair a handler passes to REQUEST_COUNT.labels(...)
LabelOf(handler) ==
    CASE handler = "root"           -> <<"GET", "/">>
      [] handler = "health_check"   -> <<"GET", "/health">>
      [] handler = "get_user"       -> <<"GET", "/api/users/{user_id}">>
      [] handler = "create_user"    -> <<"POST", "/api/users">>
      [] handler = "simulate_error" -> <<"GET", "/api/simulate-error">>

Labels == {LabelOf(h) : h \in {"root", "health_check", "get_user",
                               "create_user", "simulate_error"}}

IncLost(counter, label) ==
    [l \in DOMAIN counter \cup {label} |-> IF l = label THEN 1 ELSE counter[l]]
\* REQUEST_COUNT.labels(method=..., endpoint=...).inc(): the child series is
\* created at 0 on first use, then one is added
Inc(counter, label) ==
    [l \in DOMAIN counter \cup {label} |->
        IF l = label
        THEN (IF l \in DOMAIN counter THEN counter[l] ELSE 0) + 1
        ELSE counter[l]]

\* the value of a label's series, 0 while it does not exist
CountOf(counter, label) ==
    IF label \in DOMAIN counter THEN counter[label] ELSE 0

\* REQUEST_DURATION.observe(amount)
Observe(hist, amount) ==
    [count |-> hist.count + 1, sum |-> hist.sum + amount]

-----------------------------------------------------------------------------
(* Tracing: tracer.start_as_current_span(name) as a context manager *)

\* __enter__: a new span, child of the span current in this request's context
StartSpan(sp, ctx, name) ==
    Append(sp, [name       |-> name,
                parent     |-> IF ctx = <<>> THEN 0 ELSE ctx[Len(ctx)],
                attributes |-> <<>>,
                ends       |-> 0])

\* span.set_attribute(key, value): a mapping, a key set again is overwritten
SetAttribute(sp, i, key, value) ==
    LET a == sp[i].attributes IN
    IF \E j \in 1 .. Len(a) : a[j][1] = key
    THEN [sp EXCEPT ![i].attributes =
              [j \in 1 .. Len(a) |-> IF a[j][1] = key THEN <<key, value>> ELSE a[j]]]
    ELSE [sp EXCEPT ![i].attributes = Append(a, <<key, value>>)]

HasAttribute(span, key, value) ==
    \E j \in 1 .. Len(span.attributes) : span.attributes[j] = <<key, value>>

SpanExitLeaky(sp, i, raised) ==
    IF raised THEN sp ELSE [sp EXCEPT ![i].ends = @ + 1]
\* __exit__: runs when the with block is left, by falling off its end or by an
\* exception passing through it; the span is ended either way
SpanExit(sp, i, raised) == [sp EXCEPT ![i].ends = @ + 1]

OpenSpans(sp) == {i \in 1 .. Len(sp) : sp[i].ends = 0}

-----------------------------------------------------------------------------
(* Responses *)

\* raise HTTPException(status_code=..., detail=...), as FastAPI answers it
HTTPException(status_code, detail) ==
    [status_code |-> status_code, detail |-> detail]

\* a returned dict (or Response), answered with the default status
Returned(body) == [status_code |-> StatusOk, body |-> body]

NoRequest == [handler |-> "none"]
NoResponse == [status_code |-> 0]
NoLocals ==
    [start_time |-> 0, processing_time |-> 0, new_user_id |-> 0,
     validation_time |-> 0, db_processing_time |-> 0, span |-> 0, ctx |-> <<>>]

GetUserRaisesNever(user_id) == FALSE
\* main.py:97  if user_id == 404
GetUserRaises(user_id) == user_id = NotFoundId

\* main.py:158  if random.random() < 0.3
SimulateErrorRaises(draw) == draw < ErrorThresholdPct

-----------------------------------------------------------------------------
(* The service.  Every handler is an `async def` that never awaits: once the  *)
(* event loop has started it, it runs to its return or raise before the loop  *)
(* runs anything else, its time.sleep calls included.                         *)

ServiceInit ==
    /\ pc = [r \in Reqs |-> "idle"]
    /\ req = [r \in Reqs |-> NoRequest]
    /\ locals = [r \in Reqs |-> NoLocals]
    /\ spans = [r \in Reqs |-> <<>>]
    /\ response = [r \in Reqs |-> NoResponse]
    /\ loop = 0
    /\ now = 0
    /\ REQUEST_COUNT = <<>>
    /\ REQUEST_DURATION = [count |-> 0, sum |-> 0]

\* A client sends a request; it is in flight until its response is sent
Arrive(r) ==
    /\ pc[r] = "idle"
    /\ \E q \in Inbound : req' = [req EXCEPT ![r] = q]
    /\ pc' = [pc EXCEPT ![r] = "pending"]
    /\ UNCHANGED <<locals, spans, response, loop, now, REQUEST_COUNT,
                   REQUEST_DURATION, gvars>>

\* The event loop starts the handler of a pending request
Scheduled(r, handler) ==
    /\ loop = 0
    /\ pc[r] = "pending"
    /\ req[r].handler = handler

\* The handler returns or raises: the response is sent, the loop is released
Finish(r, resp) ==
    /\ response' = [response EXCEPT ![r] = resp]
    /\ pc' = [pc EXCEPT ![r] = "done"]
    /\ loop' = 0

\* main.py:68-72
Root(r) ==
    /\ Scheduled(r, "root")
    /\ REQUEST_COUNT' = Inc(REQUEST_COUNT, <<"GET", "/">>)
    /\ Finish(r, Returned([message |->
                 "Hello World! This is a FastAPI app with metrics."]))
    /\ UNCHANGED <<req, locals, spans, now, REQUEST_DURATION, gvars>>

HealthCheckTimed(r) ==
    /\ Scheduled(r, "health_check")
    /\ REQUEST_COUNT' = Inc(REQUEST_COUNT, <<"GET", "/health">>)
    /\ REQUEST_DURATION' = Observe(REQUEST_DURATION, 0)
    /\ Finish(r, Returned([status |-> "healthy", timestamp |-> now]))
    /\ UNCHANGED <<req, locals, spans, now, gvars>>
\* main.py:74-78
HealthCheck(r) ==
    /\ Scheduled(r, "health_check")
    /\ REQUEST_COUNT' = Inc(REQUEST_COUNT, <<"GET", "/health">>)
    /\ Finish(r, Returned([status |-> "healthy", timestamp |-> now]))
    /\ UNCHANGED <<req, locals, spans, now, REQUEST_DURATION, gvars>>

\* main.py:152-161
SimulateError(r) ==
    /\ Scheduled(r, "simulate_error")
    /\ REQUEST_COUNT' = Inc(REQUEST_COUNT, <<"GET", "/api/simulate-error">>)
    /\ \E draw \in RandomDraws :
          IF SimulateErrorRaises(draw)
          THEN Finish(r, HTTPException(StatusInternalError,
                                       "Simulated internal server error"))
          ELSE Finish(r, Returned([message |-> "Success! No error this time."]))
    /\ UNCHANGED <<req, locals, spans, now, REQUEST_DURATION, gvars>>

\* main.py:163-166: generate_latest() renders the registry
CustomMetrics(r) ==
    /\ Scheduled(r, "custom_metrics")
    /\ Finish(r, Returned([app_requests_total |-> REQUEST_COUNT,
                           app_request_duration_seconds |-> REQUEST_DURATION]))
    /\ UNCHANGED <<req, locals, spans, now, REQUEST_COUNT, REQUEST_DURATION,
                   gvars>>

\* main.py:83-84
GetUserStart(r) ==
    /\ Scheduled(r, "get_user")
    /\ loop' = r
    /\ locals' = [locals EXCEPT ![r].start_time = now]
    /\ REQUEST_COUNT' = Inc(REQUEST_COUNT, <<"GET", "/api/users/{user_id}">>)
    /\ pc' = [pc EXCEPT ![r] = "gu_with"]
    /\ UNCHANGED <<req, spans, response, now, REQUEST_DURATION, gvars>>

\* main.py:87-95: the span is entered and time.sleep begins
GetUserQuery(r) ==
    /\ loop = r
    /\ pc[r] = "gu_with"
    /\ \E t \in ProcessingTimes :
        LET s0 == StartSpan(spans[r], locals[r].ctx, "simulate_database_query")
            i  == Len(s0)
            s1 == SetAttribute(s0, i, "user.id", req[r].user_id)
            s2 == SetAttribute(s1, i, "db.operation", "select")
            s3 == SetAttribute(s2, i, "db.table", "users")
            s4 == SetAttribute(s3, i, "db.duration_ms", t)
        IN /\ spans' = [spans EXCEPT ![r] = s4]
           /\ locals' = [locals EXCEPT ![r].span = i,
                                       ![r].ctx = Append(@, i),
                                       ![r].processing_time = t]
    /\ pc' = [pc EXCEPT ![r] = "gu_sleep"]
    /\ UNCHANGED <<req, response, loop, now, REQUEST_COUNT, REQUEST_DURATION,
                   gvars>>

\* main.py:95-100: time.sleep returns, the 404 branch raises through the with
GetUserNotFound(r) ==
    /\ loop = r
    /\ pc[r] = "gu_sleep"
    /\ GetUserRaises(req[r].user_id)
    /\ now' = now + locals[r].processing_time
    /\ LET i  == locals[r].span
           s1 == SetAttribute(spans[r], i, "error", TRUE)
           s2 == SetAttribute(s1, i, "error.message", "User not found")
       IN spans' = [spans EXCEPT ![r] = SpanExit(s2, i, TRUE)]
    /\ locals' = [locals EXCEPT ![r].ctx = SubSeq(@, 1, Len(@) - 1)]
    /\ Finish(r, HTTPException(StatusNotFound, "User not found"))
    /\ UNCHANGED <<req, REQUEST_COUNT, REQUEST_DURATION, gvars>>

\* main.py:95-102: time.sleep returns, the with block ends normally
GetUserFound(r) ==
    /\ loop = r
    /\ pc[r] = "gu_sleep"
    /\ ~GetUserRaises(req[r].user_id)
    /\ now' = now + locals[r].processing_time
    /\ LET i  == locals[r].span
           s1 == SetAttribute(spans[r], i, "user.found", TRUE)
       IN spans' = [spans EXCEPT ![r] = SpanExit(s1, i, FALSE)]
    /\ locals' = [locals EXCEPT ![r].ctx = SubSeq(@, 1, Len(@) - 1)]
    /\ pc' = [pc EXCEPT ![r] = "gu_observe"]
    /\ UNCHANGED <<req, response, loop, REQUEST_COUNT, REQUEST_DURATION, gvars>>

\* main.py:104-111
GetUserReturn(r) ==
    /\ loop = r
    /\ pc[r] = "gu_observe"
    /\ REQUEST_DURATION' = Observe(REQUEST_DURATION, now - locals[r].start_time)
    /\ Finish(r, Returned([user_id         |-> req[r].user_id,
                           username        |-> Username(req[r].user_id),
                           email           |-> Email(req[r].user_id),
                           processing_time |-> locals[r].processing_time]))
    /\ UNCHANGED <<req, locals, spans, now, REQUEST_COUNT, gvars>>

\* main.py:116-119
CreateUserStart(r) ==
    /\ Scheduled(r, "create_user")
    /\ loop' = r
    /\ REQUEST_COUNT' = Inc(REQUEST_COUNT, <<"POST", "/api/users">>)
    /\ \E id \in NewUserIds :
          locals' = [locals EXCEPT ![r].start_time = now,
                                   ![r].new_user_id = id]
    /\ pc' = [pc EXCEPT ![r] = "cu_validate"]
    /\ UNCHANGED <<req, spans, response, now, REQUEST_DURATION, gvars>>

\* main.py:122-125: the validation span is entered and time.sleep begins
ValidateEnter(r) ==
    /\ loop = r
    /\ pc[r] = "cu_validate"
    /\ \E t \in ValidationTimes :
        LET s0 == StartSpan(spans[r], locals[r].ctx, "validate_user_data")
            i  == Len(s0)
            s1 == SetAttribute(s0, i, "user.id", locals[r].new_user_id)
        IN /\ spans' = [spans EXCEPT ![r] = s1]
           /\ locals' = [locals EXCEPT ![r].span = i,
                                       ![r].ctx = Append(@, i),
                                       ![r].validation_time = t]
    /\ pc' = [pc EXCEPT ![r] = "cu_validate_sleep"]
    /\ UNCHANGED <<req, response, loop, now, REQUEST_COUNT, REQUEST_DURATION,
                   gvars>>

ValidateExitKeepsOpen(r) ==
    /\ loop = r
    /\ pc[r] = "cu_validate_sleep"
    /\ now' = now + locals[r].validation_time
    /\ LET i  == locals[r].span
           s1 == SetAttribute(spans[r], i, "validation.duration_ms",
                              locals[r].validation_time)
           s2 == SetAttribute(s1, i, "validation.passed", TRUE)
       IN spans' = [spans EXCEPT ![r] = s2]
    /\ pc' = [pc EXCEPT ![r] = "cu_insert"]
    /\ UNCHANGED <<req, locals, response, loop, REQUEST_COUNT, REQUEST_DURATION,
                   gvars>>
\* main.py:125-127: time.sleep returns, the with block ends
ValidateExit(r) ==
    /\ loop = r
    /\ pc[r] = "cu_validate_sleep"
    /\ now' = now + locals[r].validation_time
    /\ LET i  == locals[r].span
           s1 == SetAttribute(spans[r], i, "validation.duration_ms",
                              locals[r].validation_time)
           s2 == SetAttribute(s1, i, "validation.passed", TRUE)
       IN spans' = [spans EXCEPT ![r] = SpanExit(s2, i, FALSE)]
    /\ locals' = [locals EXCEPT ![r].ctx = SubSeq(@, 1, Len(@) - 1)]
    /\ pc' = [pc EXCEPT ![r] = "cu_insert"]
    /\ UNCHANGED <<req, response, loop, REQUEST_COUNT, REQUEST_DURATION, gvars>>

\* main.py:130-137: the insert span is entered and time.sleep begins
InsertEnter(r) ==
    /\ loop = r
    /\ pc[r] = "cu_insert"
    /\ \E t \in DbProcessingTimes :
        LET s0 == StartSpan(spans[r], locals[r].ctx, "database_insert")
            i  == Len(s0)
            s1 == SetAttribute(s0, i, "user.id", locals[r].new_user_id)
            s2 == SetAttribute(s1, i, "db.operation", "insert")
            s3 == SetAttribute(s2, i, "db.table", "users")
        IN /\ spans' = [spans EXCEPT ![r] = s3]
           /\ locals' = [locals EXCEPT ![r].span = i,
                                       ![r].ctx = Append(@, i),
                                       ![r].db_processing_time = t]
    /\ pc' = [pc EXCEPT ![r] = "cu_insert_sleep"]
    /\ UNCHANGED <<req, response, loop, now, REQUEST_COUNT, REQUEST_DURATION,
                   gvars>>

\* main.py:137-139: time.sleep returns, the with block ends
InsertExit(r) ==
    /\ loop = r
    /\ pc[r] = "cu_insert_sleep"
    /\ now' = now + locals[r].db_processing_time
    /\ LET i  == locals[r].span
           s1 == SetAttribute(spans[r], i, "db.duration_ms",
                              locals[r].db_processing_time)
           s2 == SetAttribute(s1, i, "db.rows_affected", 1)
       IN spans' = [spans EXCEPT ![r] = SpanExit(s2, i, FALSE)]
    /\ locals' = [locals EXCEPT ![r].ctx = SubSeq(@, 1, Len(@) - 1)]
    /\ pc' = [pc EXCEPT ![r] = "cu_observe"]
    /\ UNCHANGED <<req, response, loop, REQUEST_COUNT, REQUEST_DURATION, gvars>>

\* main.py:141-150
CreateUserReturn(r) ==
    /\ loop = r
    /\ pc[r] = "cu_observe"
    /\ LET processing_time == now - locals[r].start_time IN
       /\ REQUEST_DURATION' = Observe(REQUEST_DURATION, processing_time)
       /\ Finish(r, Returned([user_id         |-> locals[r].new_user_id,
                              username        |-> Username(locals[r].new_user_id),
                              email           |-> Email(locals[r].new_user_id),
                              created         |-> TRUE,
                              processing_time |-> processing_time]))
    /\ UNCHANGED <<req, locals, spans, now, REQUEST_COUNT, gvars>>

\* The first step of the handler of request r
HandlerStart(r) ==
    \/ Root(r)
    \/ HealthCheck(r)
    \/ SimulateError(r)
    \/ CustomMetrics(r)
    \/ GetUserStart(r)
    \/ CreateUserStart(r)

\* A later step of the handler of request r
HandlerStep(r) ==
    \/ GetUserQuery(r)
    \/ GetUserNotFound(r)
    \/ GetUserFound(r)
    \/ GetUserReturn(r)
    \/ ValidateEnter(r)
    \/ ValidateExit(r)
    \/ InsertEnter(r)
    \/ InsertExit(r)
    \/ CreateUserReturn(r)

GenIdle ==
    /\ g_pc = "Idle"
    /\ duration_seconds = 0
    /\ requests_per_second = 0
    /\ start_time = 0
    /\ clock = 0
    /\ total_requests = 0
    /\ successful_requests = 0
    /\ choice = <<>>
    /\ result = <<>>
    /\ progress = <<>>
    /\ summary = <<>>

Init == ServiceInit /\ GenIdle

Next == \E r \in Reqs : Arrive(r) \/ HandlerStart(r) \/ HandlerStep(r)

Spec == Init /\ [][Next]_vars

-----------------------------------------------------------------------------
(* The traffic generator, src/test_api.py.  generate_traffic is one coroutine; *)
(* it suspends at `await test_endpoint(...)` and at `await asyncio.sleep(...)`. *)

MaxDuration == 5           \* largest duration_seconds tried

TimeoutSeconds == 10       \* test_api.py:62
ProgressEvery == 10        \* test_api.py:75
ErrorStatusFloor == 400    \* test_api.py:28

Durations == 0 .. MaxDuration
\* requests_per_second: the light and the moderate rate of the menu in main()
Rates == {1, 2}
\* response.elapsed of an answered request, ms
ResponseTimes == {0, 500}

\* test_api.py:42-51
endpoints ==
    << <<"/", "GET">>,
       <<"/health", "GET">>,
       <<"/api/users/123", "GET">>,
       <<"/api/users/456", "GET">>,
       <<"/api/users/789", "GET">>,
       <<"/api/users/404", "GET">>,
       <<"/api/users", "POST">>,
       <<"/api/simulate-error", "GET">> >>

\* The route decorators of main.py: the handler a catalog entry reaches
RouteOf(endpoint, method) ==
    CASE endpoint = "/" /\ method = "GET" -> [handler |-> "root"]
      [] endpoint = "/health" /\ method = "GET" -> [handler |-> "health_check"]
      [] endpoint = "/api/users/123" /\ method = "GET" ->
            [handler |-> "get_user", user_id |-> 123]
      [] endpoint = "/api/users/456" /\ method = "GET" ->
            [handler |-> "get_user", user_id |-> 456]
      [] endpoint = "/api/users/789" /\ method = "GET" ->
            [handler |-> "get_user", user_id |-> 789]
      [] endpoint = "/api/users/404" /\ method = "GET" ->
            [handler |-> "get_user", user_id |-> 404]
      [] endpoint = "/api/users" /\ method = "POST" ->
            [handler |-> "create_user"]
      [] endpoint = "/api/simulate-error" /\ method = "GET" ->
            [handler |-> "simulate_error"]

\* The status codes the handler of a request can answer with
StatusesOf(q) ==
    CASE q.handler = "get_user" ->
            {IF GetUserRaises(q.user_id) THEN StatusNotFound ELSE StatusOk}
      [] q.handler = "simulate_error" ->
            {IF SimulateErrorRaises(d) THEN StatusInternalError ELSE StatusOk :
                 d \in RandomDraws}
      [] OTHER -> {StatusOk}

\* What `await client.get/post` can do: answer with a status after some time,
\* or raise: the connection is refused at once, or the 10 s timeout expires
Outcomes(endpoint, method) ==
    {[raised |-> FALSE, status_code |-> c, elapsed |-> t] :
        c \in StatusesOf(RouteOf(endpoint, method)), t \in ResponseTimes}
    \cup {[raised |-> TRUE, error |-> "All connection attempts failed",
           elapsed |-> 0],
          [raised |-> TRUE, error |-> "timed out",
           elapsed |-> TimeoutSeconds * 1000]}

\* A value of a dict slot that holds an int on one path and a str on another,
\* tagged with its Python type
PyInt(n) == [int |-> n]
PyStr(t) == [str |-> t]

TestEndpointCountsErrors(endpoint, method, outcome) ==
    IF outcome.raised
    THEN [endpoint |-> endpoint, method |-> method, status |-> PyStr("error"),
          error |-> outcome.error, success |-> TRUE]
    ELSE [endpoint |-> endpoint, method |-> method,
          status |-> PyInt(outcome.status_code), response_time |-> outcome.elapsed,
          success |-> outcome.status_code < ErrorStatusFloor]
\* test_api.py:15-37: the dict test_endpoint returns; `except Exception` turns
\* any error of the call into a result, nothing propagates
TestEndpoint(endpoint, method, outcome) ==
    IF outcome.raised
    THEN [endpoint |-> endpoint, method |-> method, status |-> PyStr("error"),
          error |-> outcome.error, success |-> FALSE]
    ELSE [endpoint |-> endpoint, method |-> method,
          status |-> PyInt(outcome.status_code), response_time |-> outcome.elapsed,
          success |-> outcome.status_code < ErrorStatusFloor]

\* the except branch's dict has an "error" key, the other has none
IsError(res) == "error" \in DOMAIN res

RECURSIVE Gcd(_, _)
Gcd(a, b) == IF b = 0 THEN a ELSE Gcd(b, a % b)

\* a non-negative quotient n/d as the fraction <<numerator, denominator>> in
\* lowest terms; Python holds the nearest double
Frac(n, d) == LET g == Gcd(n, d) IN <<n \div g, d \div g>>

SuccessRateFloorDiv(successful, total) ==
    IF total > 0 THEN Frac((successful \div total) * 100, 1) ELSE <<0, 1>>
\* test_api.py:78 and :88
\* (successful_requests / total_requests) * 100 if total_requests > 0 else 0
SuccessRate(successful, total) ==
    IF total > 0 THEN Frac(successful * 100, total) ELSE <<0, 1>>

\* test_api.py:77 and :87   total_requests / elapsed if elapsed > 0 else 0
\* (elapsed in ms, the rate per second)
RateOf(total, elapsed) ==
    IF elapsed > 0 THEN Frac(total * 1000, elapsed) ELSE <<0, 1>>

\* f"{x:.1f}": x rounded to tenths, a tie (exact in binary for the totals
\* reached here) to the even tenth; the result in tenths
Format1(x) ==
    LET q == (10 * x[1]) \div x[2]
        rem == (10 * x[1]) % x[2]
    IN IF 2 * rem > x[2] THEN q + 1
       ELSE IF 2 * rem < x[2] THEN q
       ELSE IF q % 2 = 0 THEN q ELSE q + 1

WithinBudgetInclusive(t, start, duration) == t - start <= duration * 1000
\* test_api.py:63   while time.time() - start_time < duration_seconds
WithinBudget(t, start, duration) == t - start < duration * 1000

\* test_api.py:39-60: generate_traffic(duration_seconds, requests_per_second)
Start ==
    /\ g_pc = "Idle"
    /\ \E d \in Durations, rate \in Rates :
          /\ duration_seconds' = d
          /\ requests_per_second' = rate
    /\ start_time' = clock
    /\ total_requests' = 0
    /\ successful_requests' = 0
    /\ g_pc' = "while"
    /\ UNCHANGED <<clock, choice, result, progress, summary, svars>>

\* test_api.py:63-68: the loop test passes, an endpoint is chosen, the request
\* is sent and awaited
LoopEnter ==
    /\ g_pc = "while"
    /\ WithinBudget(clock, start_time, duration_seconds)
    /\ \E i \in 1 .. Len(endpoints) : choice' = endpoints[i]
    /\ g_pc' = "await_request"
    /\ UNCHANGED <<duration_seconds, requests_per_second, start_time, clock,
                   total_requests, successful_requests, result, progress,
                   summary, svars>>

\* test_api.py:68: test_endpoint returns its dict
Respond ==
    /\ g_pc = "await_request"
    /\ \E o \in Outcomes(choice[1], choice[2]) :
          /\ result' = TestEndpoint(choice[1], choice[2], o)
          /\ clock' = clock + o.elapsed
    /\ g_pc' = "update"
    /\ UNCHANGED <<duration_seconds, requests_per_second, start_time,
                   total_requests, successful_requests, choice, progress,
                   summary, svars>>

\* test_api.py:69-80: the totals, and the progress line of every 10th request
Update ==
    /\ g_pc = "update"
    /\ LET total == total_requests + 1
           successful == IF result.success THEN successful_requests + 1
                         ELSE successful_requests
           elapsed == clock - start_time
       IN /\ total_requests' = total
          /\ successful_requests' = successful
          /\ progress' =
                IF total % ProgressEvery = 0
                THEN Append(progress,
                        [elapsed      |-> elapsed,
                         rate         |-> Format1(RateOf(total, elapsed)),
                         success_rate |-> SuccessRate(successful, total),
                         success_text |-> Format1(SuccessRate(successful, total)),
                         total        |-> total])
                ELSE progress
    /\ g_pc' = "sleep"
    /\ UNCHANGED <<duration_seconds, requests_per_second, start_time, clock,
                   choice, result, summary, svars>>

\* test_api.py:83   await asyncio.sleep(1.0 / requests_per_second)
Sleep ==
    /\ g_pc = "sleep"
    /\ clock' = clock + 1000 \div requests_per_second
    /\ g_pc' = "while"
    /\ UNCHANGED <<duration_seconds, requests_per_second, start_time,
                   total_requests, successful_requests, choice, result,
                   progress, summary, svars>>

\* test_api.py:63, 85-99: the loop test fails, the final statistics are printed
LoopExit ==
    /\ g_pc = "while"
    /\ ~WithinBudget(clock, start_time, duration_seconds)
    /\ LET elapsed == clock - start_time IN
       summary' = Append(summary,
          [elapsed      |-> elapsed,
           total        |-> total_requests,
           successful   |-> successful_requests,
           failed       |-> total_requests - successful_requests,
           success_rate |-> SuccessRate(successful_requests, total_requests),
           success_text |-> Format1(SuccessRate(successful_requests,
                                                total_requests)),
           actual_rate  |-> Format1(RateOf(total_requests, elapsed))])
    /\ g_pc' = "Finished"
    /\ UNCHANGED <<duration_seconds, requests_per_second, start_time, clock,
                   total_requests, successful_requests, choice, result,
                   progress, svars>>

GenNext == Start \/ LoopEnter \/ Respond \/ Update \/ Sleep \/ LoopExit

GenSpec == Init /\ [][GenNext]_vars

\* The event loop resumes the coroutine whenever its await completes: every
\* request returns or runs into its timeout, every sleep ends
GenLiveSpec == GenSpec /\ WF_vars(GenNext)

\* Idle until generate_traffic is called, Finished after the final statistics
GenState ==
    IF g_pc = "Idle" THEN "Idle"
    ELSE IF g_pc = "Finished" THEN "Finished" ELSE "Running"

-----------------------------------------------------------------------------
(* Properties of the service, checked under Spec *)

Instrumented == {"root", "health_check", "get_user", "create_user",
                 "simulate_error"}
Staged == {"get_user", "create_user"}
Sleeping == {"gu_sleep", "cu_validate_sleep", "cu_insert_sleep"}

\* the requests whose handler has been started
Dispatched == {r \in Reqs : pc[r] \notin {"idle", "pending"}}

\* the requests already started on the route with this label
DispatchedTo(label) ==
    {r \in Dispatched : /\ req[r].handler \in Instrumented
                        /\ LabelOf(req[r].handler) = label}

C1_CountIsDispatched ==
    \A l \in Labels :
        CountOf(REQUEST_COUNT, l) = Cardinality(DispatchedTo(l))

C1_StepCountsOnce ==
    /\ \A l \in Labels :
          CountOf(REQUEST_COUNT', l) >= CountOf(REQUEST_COUNT, l)
    /\ \A r \in Reqs :
          (pc[r] = "pending" /\ pc'[r] # "pending"
              /\ req[r].handler \in Instrumented)
          => \A l \in Labels :
                CountOf(REQUEST_COUNT', l) =
                    CountOf(REQUEST_COUNT, l)
                      + (IF l = LabelOf(req[r].handler) THEN 1 ELSE 0)
    /\ \A r \in Reqs :
          (pc[r] \notin {"idle", "pending"} /\ pc'[r] # pc[r])
          => REQUEST_COUNT' = REQUEST_COUNT

\* C1: every request dispatched to an instrumented route adds exactly 1 to
\* the counter of exactly one (method, route) label pair, on success and on a
\* 404/500 failure alike; no counter decreases; with K requests to one route
\* dispatched in any interleaving that route's counter stands at exactly K.
C1_CountedExactlyOnce ==
    /\ []C1_CountIsDispatched
    /\ [][C1_StepCountsOnce]_vars

\* two requests to the user route are complete, one of them failed with 404,
\* and the route's counter stands at 2
C1_Witness ==
    \E r1, r2 \in Reqs :
        /\ r1 # r2
        /\ pc[r1] = "done" /\ pc[r2] = "done"
        /\ req[r1].handler = "get_user" /\ req[r2].handler = "get_user"
        /\ response[r1].status_code = 404
        /\ response[r2].status_code = 200
        /\ CountOf(REQUEST_COUNT, <<"GET", "/api/users/{user_id}">>) = 2

\* the number of spans a completed operation must have started
SpansStartedBy(handler) ==
    CASE handler = "get_user" -> 1
      [] handler = "create_user" -> 2
      [] OTHER -> 0

\* C2: every span FetchUser or CreateUser opens is closed exactly once before
\* the operation returns, on the NotFound path too: never more than one end
\* per span, and a completed operation has started its spans and none is open.
C2_SpansClosedExactlyOnce ==
    \A r \in Reqs :
        /\ \A i \in 1 .. Len(spans[r]) : spans[r][i].ends <= 1
        /\ pc[r] \in {"gu_observe", "cu_observe", "done"}
            => /\ Len(spans[r]) = SpansStartedBy(req[r].handler)
               /\ \A i \in 1 .. Len(spans[r]) : spans[r][i].ends = 1
               /\ OpenSpans(spans[r]) = {}
               /\ locals[r].ctx = <<>>

\* a FetchUser(404) has completed with NotFound and its span is closed
C2_Witness ==
    \E r \in Reqs :
        /\ pc[r] = "done"
        /\ req[r].handler = "get_user"
        /\ response[r].status_code = 404
        /\ Len(spans[r]) = 1
        /\ spans[r][1].name = "simulate_database_query"
        /\ spans[r][1].ends = 1

\* C3: FetchUser(id) fails with NotFound (404, "User not found", span marked
\* as error) iff id = 404; any other id succeeds with username "user_{id}" and
\* email "user_{id}@example.com" of the same id.
C3_NotFoundIffSentinel ==
    \A r \in Reqs :
        (pc[r] = "done" /\ req[r].handler = "get_user")
        => LET id == req[r].user_id IN
           IF id = 404
           THEN /\ response[r] = [status_code |-> 404,
                                  detail |-> "User not found"]
                /\ HasAttribute(spans[r][1], "error", TRUE)
                /\ HasAttribute(spans[r][1], "error.message", "User not found")
           ELSE /\ response[r].status_code = 200
                /\ response[r].body.user_id = id
                /\ response[r].body.username = "user_" \o ToString(id)
                /\ response[r].body.email =
                       "user_" \o ToString(id) \o "@example.com"
                /\ ~HasAttribute(spans[r][1], "error", TRUE)
                /\ HasAttribute(spans[r][1], "user.found", TRUE)

\* one FetchUser(404) has failed and one FetchUser of a negative id succeeded
C3_Witness ==
    \E r1, r2 \in Reqs :
        /\ pc[r1] = "done" /\ req[r1].handler = "get_user"
        /\ req[r1].user_id = 404 /\ response[r1].status_code = 404
        /\ pc[r2] = "done" /\ req[r2].handler = "get_user"
        /\ req[r2].user_id = -7 /\ response[r2].body.username = "user_-7"

\* C4 as claimed: one duration sample per completed FetchUser or CreateUser,
\* failed ones included.
C4_SampleForEveryCompletion ==
    REQUEST_DURATION.count =
        Cardinality({r \in Reqs : pc[r] = "done" /\ req[r].handler \in Staged})

\* C5 as claimed: while a request is inside its simulated delay, any other
\* request in flight can take a step.
C5_SleepDoesNotBlockOthers ==
    \A r, q \in Reqs :
        (pc[r] \in Sleeping /\ pc[q] = "pending")
        => ENABLED (HandlerStart(q) \/ HandlerStep(q))

C9_StagesInSequence ==
    \A r \in Reqs :
        req[r].handler = "create_user" =>
            /\ Cardinality(OpenSpans(spans[r])) <= 1
            /\ Len(spans[r]) >= 1 =>
                  /\ spans[r][1].name = "validate_user_data"
                  /\ spans[r][1].parent = 0
            /\ Len(spans[r]) >= 2 =>
                  /\ spans[r][2].name = "database_insert"
                  /\ spans[r][2].parent = spans[r][1].parent
                  /\ spans[r][1].ends = 1
            /\ pc[r] \in {"cu_observe", "done"} =>
                  /\ Len(spans[r]) = 2
                  /\ OpenSpans(spans[r]) = {}
            /\ pc[r] = "done" =>
                  /\ response[r].status_code = 200
                  /\ response[r].body.created = TRUE
                  /\ response[r].body.user_id = locals[r].new_user_id

C9_SampleAfterBothClosed ==
    \A r \in Reqs :
        (req[r].handler = "create_user" /\ pc[r] # "done" /\ pc'[r] = "done")
        => /\ REQUEST_DURATION'.count = REQUEST_DURATION.count + 1
           /\ Len(spans[r]) = 2
           /\ OpenSpans(spans[r]) = {}
           /\ spans'[r] = spans[r]

\* C9: CreateUser always succeeds and runs its two stages in sequence as
\* sibling spans: "validate_user_data" is closed before "database_insert" is
\* opened, they are never open together, and both are closed before the
\* duration sample is recorded and the result returned.
C9_CreateUserStagesSequential ==
    /\ []C9_StagesInSequence
    /\ [][C9_SampleAfterBothClosed]_vars

\* a CreateUser has completed with both spans closed
C9_Witness ==
    \E r \in Reqs :
        /\ pc[r] = "done"
        /\ req[r].handler = "create_user"
        /\ response[r].body.created = TRUE
        /\ Len(spans[r]) = 2
        /\ spans[r][2].ends = 1

Unstaged == {"root", "health_check", "simulate_error", "custom_metrics"}

C10_UnstagedFrame ==
    \A r \in Reqs :
        (pc[r] = "pending" /\ pc'[r] # "pending" /\ req[r].handler \in Unstaged)
        => /\ pc'[r] = "done"
           /\ spans' = spans
           /\ REQUEST_DURATION' = REQUEST_DURATION
           /\ IF req[r].handler = "custom_metrics"
              THEN REQUEST_COUNT' = REQUEST_COUNT
              ELSE \A l \in Labels :
                     CountOf(REQUEST_COUNT', l) =
                        CountOf(REQUEST_COUNT, l)
                          + (IF l = LabelOf(req[r].handler) THEN 1 ELSE 0)

\* C10: GET /, GET /health, GET /api/simulate-error (both branches) and the
\* metrics snapshot open no span and add no duration sample; apart from the
\* one counter increment of the first three they leave the spans and the
\* duration distribution unchanged, and the snapshot leaves every counter
\* unchanged.
C10_UnstagedLeaveSpansAndDurations ==
    /\ [](\A r \in Reqs : req[r].handler \in Unstaged => spans[r] = <<>>)
    /\ [][C10_UnstagedFrame]_vars

\* a simulate-error request has failed with 500 and a health check is done,
\* with no duration sample and no span
C10_Witness ==
    \E r1, r2 \in Reqs :
        /\ pc[r1] = "done" /\ req[r1].handler = "simulate_error"
        /\ response[r1].status_code = 500
        /\ pc[r2] = "done" /\ req[r2].handler = "health_check"
        /\ REQUEST_DURATION.count = 0
        /\ spans[r1] = <<>> /\ spans[r2] = <<>>

-----------------------------------------------------------------------------
(* Properties of the traffic generator, checked under GenSpec / GenLiveSpec *)

C6_ErrorCountedAsFailure ==
    /\ (g_pc = "await_request" /\ g_pc' # "await_request" /\ IsError(result'))
        => /\ ~result'.success
           /\ g_pc' = "update"
           /\ total_requests' = total_requests
           /\ successful_requests' = successful_requests
    /\ (g_pc = "update" /\ g_pc' # "update" /\ IsError(result))
        => /\ total_requests' = total_requests + 1
           /\ successful_requests' = successful_requests
           /\ g_pc' = "sleep"
    /\ (g_pc = "sleep" /\ g_pc' # "sleep" /\ IsError(result))
        => g_pc' = "while"

\* C6: a transport-level error of a request is counted as one failed attempt
\* (total + 1, successful unchanged) and the loop goes on to its pacing sleep
\* and its next loop test; the generator stays Running through it.
C6_TransportErrorIsOneFailure ==
    /\ [][C6_ErrorCountedAsFailure]_vars
    /\ []((IsError(result) /\ g_pc \in {"update", "sleep"})
             => GenState = "Running")

\* a request raised, was counted as a failure, and the next request is out
C6_Witness ==
    /\ g_pc = "await_request"
    /\ IsError(result)
    /\ total_requests = 2
    /\ successful_requests = 1

\* a printed percentage v (a fraction) and its text (tenths) are those of
\* successful out of total
IsPercentOf(v, text, successful, total) ==
    IF total = 0
    THEN v[1] = 0 /\ text = 0
    ELSE /\ v[1] * total = 100 * successful * v[2]
         /\ 2 * text * total <= 2000 * successful + total
         /\ 2 * text * total >= 2000 * successful - total

C7_Totals ==
    /\ successful_requests <= total_requests
    /\ \A i \in 1 .. Len(summary) :
          /\ summary[i].total = total_requests
          /\ summary[i].successful = successful_requests
          /\ IsPercentOf(summary[i].success_rate, summary[i].success_text,
                         successful_requests, total_requests)

C7_UpdateStep ==
    (g_pc = "update" /\ g_pc' # "update")
    => /\ total_requests' = total_requests + 1
       /\ IF ~IsError(result) /\ result.status.int < 400
          THEN successful_requests' = successful_requests + 1
          ELSE successful_requests' = successful_requests
       /\ IF total_requests' % 10 = 0
          THEN /\ Len(progress') = Len(progress) + 1
               /\ LET line == progress'[Len(progress')] IN
                  /\ line.total = total_requests'
                  /\ IsPercentOf(line.success_rate, line.success_text,
                                 successful_requests', total_requests')
          ELSE progress' = progress

C7_OnlyUpdateCounts ==
    (g_pc # "update" /\ g_pc # "Idle")
    => /\ successful_requests' = successful_requests
       /\ total_requests' = total_requests
       /\ progress' = progress

\* C7: successful <= total always; successful grows by one for a request
\* exactly when it returned a status below 400; every reported success
\* percentage (progress line, final summary) is (successful / total) x 100 of
\* the totals at that moment, 0 when total is 0.
C7_SuccessAccounting ==
    /\ []C7_Totals
    /\ [][C7_UpdateStep /\ C7_OnlyUpdateCounts]_vars

\* a run has finished after 10 requests of which 7 succeeded: the progress
\* line and the summary both say 70.0 %
C7_Witness ==
    /\ g_pc = "Finished"
    /\ Len(progress) = 1
    /\ progress[1].success_text = 700
    /\ summary[1].total = 10
    /\ summary[1].successful = 7
    /\ summary[1].success_text = 700

C8_Safety ==
    /\ g_pc = "await_request"
          => clock - start_time < duration_seconds * 1000
    /\ Len(summary) = (IF g_pc = "Finished" THEN 1 ELSE 0)
    /\ g_pc = "Finished"
          => clock - start_time >= duration_seconds * 1000

C8_Steps ==
    /\ GenState = "Idle" => GenState' \in {"Idle", "Running"}
    /\ GenState = "Running" => GenState' \in {"Running", "Finished"}
    /\ GenState = "Finished" => UNCHANGED gvars
    /\ total_requests' # total_requests
          => total_requests' = (IF g_pc = "Idle" THEN 0 ELSE total_requests + 1)
    /\ (g_pc = "update" /\ g_pc' # "update") => g_pc' = "sleep"
    /\ (g_pc = "sleep" /\ g_pc' # "sleep")
          => /\ g_pc' = "while"
             /\ clock' * requests_per_second
                   = clock * requests_per_second + 1000
    /\ g_pc' = "await_request" => g_pc \in {"while", "await_request"}

\* C8: a run with a finite duration and a positive rate goes Idle -> Running
\* -> Finished: a request is issued only while elapsed < duration, one at a
\* time with a pacing sleep of 1/rate after each; the loop is eventually left
\* once elapsed reaches the duration; the final summary is printed exactly
\* once and nothing is issued after Finished.
C8_RunTerminates ==
    /\ []C8_Safety
    /\ [][C8_Steps]_vars
    /\ <>(GenState = "Finished")
    /\ [](GenState = "Finished" => [](GenState = "Finished"))

\* a 5 s run at 2 requests per second has finished after 10 requests
C8_Witness ==
    /\ g_pc = "Finished"
    /\ duration_seconds = 5
    /\ requests_per_second = 2
    /\ total_requests = 10
    /\ Len(summary) = 1

=============================================================================
